---------------------------- MODULE Spec2Model ----------------------------
(***************************************************************************)
(* A model of yore (src/src/yore/lib.py, src/src/yore/cli.py): the         *)
(* Yore-comment grammar, the scope resolution, the buffer editor           *)
(* YoreComment.fix, the checker YoreComment.check, and the per-file        *)
(* session of the fix command, CommandFix._fix.                            *)
(*                                                                         *)
(* Text.  A line of text is a record                                       *)
(*     [ws, txt, cmt, nl]                                                  *)
(* standing for the string made of `ws' spaces, then the code text `txt'   *)
(* (a sequence of non-whitespace characters) or the comment `cmt', then a  *)
(* line terminator when `nl' holds.  `cmt' is <<>> (no comment) or <<g>>,  *)
(* g being the named groups a "# PREFIX: kind version: action" comment     *)
(* is made of, as written in the file.  Optional values (Python's None)    *)
(* are sequences of length 0 or 1.  Buffers are sequences of lines; the    *)
(* code's 0-based index i is the model's index i + 1.                      *)
(***************************************************************************)
EXTENDS Integers, Sequences, FiniteSets, TLC

VARIABLES
    disk,        \* the file: [exists, text], text the lines of its content
    bump,        \* --bump: the next version of the project, optional
    eol_within,  \* --eol-within: a number of days, optional
    bol_within,  \* --bol-within: a number of days, optional
    today,       \* DateTime.now(tz=utc).date(), a day number
    pc,          \* where the running command stands
    lines,       \* CommandFix._fix: the buffer `lines'
    todo,        \* CommandFix._fix: the sorted comments not yet applied
    count,       \* CommandFix._fix: `count'
    applied,     \* history: the calls of fix() made, in order
    writes,      \* history: the number of write_text calls on the file
    unlinks,     \* history: the number of unlink calls on the file
    log,         \* the records logged by check(), in order
    call,        \* a function of lib.py called on its own: its name and arguments
    ret          \* what that call returned

vars == <<disk, bump, eol_within, bol_within, today, pc, lines, todo, count,
          applied, writes, unlinks, log, call, ret>>

---------------------------------------------------------------------------
(* Optional values. *)

None == <<>>

Some(v) == <<v>>

IsNone(o) == Len(o) = 0

Get(o) == o[1]

---------------------------------------------------------------------------
(* Bounds of the model. *)

\* the longest file, in lines
MaxLen == 3

\* the deepest indentation written in a file
MaxIndent == 1

\* the most Yore-comments in one file
MaxComments == 2

\* the latest day `today' takes; days are counted from 0
MaxDay == 4

\* the longest lead time, in days
MaxWithin == 2

\* the longest text of a list of lines, in characters
MaxText == 5

---------------------------------------------------------------------------
(* Lines of text. *)

NoGroups == <<>>

CodeLine(ws, txt, nl) == [ws |-> ws, txt |-> txt, cmt |-> NoGroups, nl |-> nl]

CommentLine(ws, g, nl) == [ws |-> ws, txt |-> <<>>, cmt |-> <<g>>, nl |-> nl]

IsComment(line) == Len(line.cmt) = 1

\* bool(line.strip()): the line holds something else than whitespace
Strip(line) == IsComment(line) \/ Len(line.txt) > 0

\* the number of whitespace characters of the line (spaces and terminator)
Whitespace(line) == line.ws + (IF line.nl THEN 1 ELSE 0)

_indent(line) ==
    IF Strip(line) THEN line.ws ELSE Whitespace(line)

\* line[n:], for n up to the line's indentation: a blank line loses its
\* spaces first and its terminator last
DropPrefix(line, n) ==
    IF n <= line.ws
    THEN [line EXCEPT !.ws = line.ws - n]
    ELSE [line EXCEPT !.ws = 0, !.nl = (line.nl /\ Strip(line))]

\* f"{new}{line}" with new = indent * " "
AddPrefix(line, indent) == [line EXCEPT !.ws = line.ws + indent]

Min(S) == CHOOSE m \in S : \A n \in S : m <= n

\* the lines of index a..b-1 (0-based), clamped as a Python slice
Slice(buffer, a, b) ==
    LET lo == IF a > Len(buffer) THEN Len(buffer) ELSE a
        hi == IF b > Len(buffer) THEN Len(buffer) ELSE b
    IN  IF hi <= lo THEN <<>> ELSE SubSeq(buffer, lo + 1, hi)

\* buffer[a:b] = replacement
Splice(buffer, a, b, replacement) ==
    LET lo == IF a > Len(buffer) THEN Len(buffer) ELSE a
        hi == IF b < lo THEN lo ELSE IF b > Len(buffer) THEN Len(buffer) ELSE b
    IN  SubSeq(buffer, 1, lo) \o replacement \o SubSeq(buffer, hi + 1, Len(buffer))

---------------------------------------------------------------------------
(* Scope resolution. *)

RECURSIVE BlockWalkNoReset(_, _, _, _, _)
\* the loop of _block_size without `consecutive_blank = 0'
BlockWalkNoReset(buffer, i, indent, size, consecutive_blank) ==
    IF i >= Len(buffer)
    THEN size - consecutive_blank
    ELSE LET line == buffer[i + 1] IN
         IF Strip(line)
         THEN IF _indent(line) < indent
              THEN size - consecutive_blank
              ELSE IF _indent(line) = indent /\ consecutive_blank > 0
                   THEN size - consecutive_blank
                   ELSE BlockWalkNoReset(buffer, i + 1, indent, size + 1, consecutive_blank)
         ELSE BlockWalkNoReset(buffer, i + 1, indent, size + 1, consecutive_blank + 1)

RECURSIVE BlockWalk(_, _, _, _, _)
\* the loop of _block_size from the line of 0-based index i on
BlockWalk(buffer, i, indent, size, consecutive_blank) ==
    IF i >= Len(buffer)
    THEN size - consecutive_blank
    ELSE LET line == buffer[i + 1] IN
         IF Strip(line)
         THEN IF _indent(line) < indent
              THEN size - consecutive_blank
              ELSE IF _indent(line) = indent /\ consecutive_blank > 0
                   THEN size - consecutive_blank
                   ELSE BlockWalk(buffer, i + 1, indent, size + 1, 0)
         ELSE BlockWalk(buffer, i + 1, indent, size + 1, consecutive_blank + 1)

\* requires start < Len(buffer): buffer[start] raises IndexError otherwise
_block_size(buffer, start) ==
    BlockWalk(buffer, start, _indent(buffer[start + 1]), 0, 0)

\* the scope "line" taken one line too low
ScopeRangeShifted(scope, buffer, start) ==
    CASE scope = "line" -> <<start + 1, start + 2>>
      [] scope = "block" ->
            IF start < Len(buffer)
            THEN <<start, start + _block_size(buffer, start)>>
            ELSE <<>>
      [] scope = "file" -> <<0, Len(buffer)>>

\* <<start, end>>, or <<>> when _block_size raises IndexError
_scope_range(scope, buffer, start) ==
    CASE scope = "line" -> <<start, start + 1>>
      [] scope = "block" ->
            IF start < Len(buffer)
            THEN <<start, start + _block_size(buffer, start)>>
            ELSE <<>>
      [] scope = "file" -> <<0, Len(buffer)>>

\* requires a non-empty list: min() of no value raises ValueError
_reindent(ls, indent) ==
    LET common == Min({_indent(ls[i]) : i \in 1..Len(ls)})
    IN  [i \in 1..Len(ls) |-> AddPrefix(DropPrefix(ls[i], common), indent)]

---------------------------------------------------------------------------
(* Versions and dates. *)

RECURSIVE StripZeros(_)
\* the release of packaging's Version, compared without its trailing zeros
StripZeros(release) ==
    IF Len(release) > 0 /\ release[Len(release)] = 0
    THEN StripZeros(SubSeq(release, 1, Len(release) - 1))
    ELSE release

\* Version(text): the text is the sequence of the numbers between its dots
Version(text) == StripZeros(text)

RECURSIVE TupleGE(_, _)
\* a >= b for tuples of numbers, as Python compares them
TupleGE(a, b) ==
    IF Len(b) = 0 THEN TRUE
    ELSE IF Len(a) = 0 THEN FALSE
    ELSE IF a[1] # b[1] THEN a[1] > b[1]
    ELSE TupleGE(Tail(a), Tail(b))

VersionGE(a, b) == TupleGE(Version(a), Version(b))

\* _LazyPythonDates._dates once fetched: version -> <<first release, end of life>>,
\* dates being day numbers
python_dates == [v \in {<<3, 8>>} |-> <<1, 3>>]

\* DateTime.now(tz=TimeZone.utc).date() >= of - delta
_within(delta, of) == today >= of - delta

\* TimeDelta(days=0)
ZeroDays == 0

---------------------------------------------------------------------------
(* The grammar of Yore-comments and the parsing of its groups. *)

DEFAULT_PREFIX == "YORE"

\* str.lower() on the keywords written in comments
Lower(word) ==
    CASE word \in {"bump", "Bump", "BUMP"} -> "bump"
      [] word \in {"eol", "Eol", "EOL"} -> "eol"
      [] word \in {"bol", "Bol", "BOL"} -> "bol"
      [] OTHER -> word

\* YoreKind, the supported kinds of Yore-comments
YoreKind == {"bump", "eol", "bol"}

\* the kinds COMMENT_PATTERN accepts, under re.IGNORECASE
PatternKinds == {"bump", "eol"}

\* regex.match(line): whether COMMENT_PATTERN, formatted with the prefix,
\* matches the line.  The groups of a comment are those of one of the three
\* alternatives of the pattern by construction; prefix and kind decide.
Matches(line, prefix) ==
    /\ IsComment(line)
    /\ line.cmt[1].prefix = prefix
    /\ Lower(line.cmt[1].kind) \in PatternKinds

Digit(ch) ==
    CASE ch = "0" -> 0 [] ch = "1" -> 1 [] ch = "2" -> 2 [] ch = "3" -> 3
      [] ch = "4" -> 4 [] ch = "5" -> 5 [] ch = "6" -> 6 [] ch = "7" -> 7
      [] ch = "8" -> 8 [] ch = "9" -> 9

RECURSIVE ToInt(_)
\* int(text) for a non-empty text of digits
ToInt(text) ==
    IF Len(text) = 0 THEN 0
    ELSE 10 * ToInt(SubSeq(text, 1, Len(text) - 1)) + Digit(text[Len(text)])

RECURSIVE SplitOn(_, _, _)
\* text.split(sep) for a one-character separator, cur being the piece read so far
SplitOn(text, seps, cur) ==
    IF Len(text) = 0 THEN <<cur>>
    ELSE IF text[1] \in seps
         THEN <<cur>> \o SplitOn(Tail(text), seps, <<>>)
         ELSE SplitOn(Tail(text), seps, Append(cur, text[1]))

\* the pieces between runs of commas and spaces:
\* replace(" ", ",").strip(","), re.sub(",+", ","), split(",")
LineRanges(text) ==
    LET pieces == SelectSeq(SplitOn(text, {" ", ","}, <<>>), LAMBDA p : Len(p) > 0)
    IN  IF Len(pieces) = 0 THEN << <<>> >> ELSE pieces

\* range(a, b) as a list: the end is left out
RangeExclusive(a, b) == [i \in 1..(IF b > a THEN b - a ELSE 0) |-> a + i - 1]

\* range(a, b + 1) as a list
Range(a, b) == [i \in 1..(IF b >= a THEN b - a + 1 ELSE 0) |-> a + i - 1]

\* whether int() and the unpacking of split("-") accept the piece
RangeOk(piece) ==
    LET parts == SplitOn(piece, {"-"}, <<>>)
    IN  /\ Len(parts) \in {1, 2}
        /\ \A i \in 1..Len(parts) : Len(parts[i]) > 0

ExpandRange(piece) ==
    LET parts == SplitOn(piece, {"-"}, <<>>)
    IN  IF Len(parts) = 2
        THEN Range(ToInt(parts[1]), ToInt(parts[2]))
        ELSE <<ToInt(parts[1])>>

RECURSIVE Concat(_)
Concat(lists) ==
    IF Len(lists) = 0 THEN <<>> ELSE Head(lists) \o Concat(Tail(lists))

\* whether _match_to_lines returns (it raises ValueError otherwise)
LinesOk(group) ==
    IF IsNone(group) THEN TRUE
    ELSE IF Len(Get(group)) = 0 THEN TRUE
    ELSE \A i \in 1..Len(LineRanges(Get(group))) : RangeOk(LineRanges(Get(group))[i])

\* the optional list of numbers of the group "lines"; a group that did not
\* take part in the match, or an empty text, gives None
_match_to_lines(group) ==
    IF IsNone(group) THEN None
    ELSE IF Len(Get(group)) = 0 THEN None
    ELSE LET pieces == LineRanges(Get(group))
         IN  Some(Concat([i \in 1..Len(pieces) |-> ExpandRange(pieces[i])]))

\* the optional number of the group "line", int() of its digits
_match_to_line(group) ==
    IF IsNone(group) THEN None ELSE Some(ToInt(Get(group)))

\* match.group(0): the line without its terminator
Raw(line) == [line EXCEPT !.nl = FALSE]

\* the YoreComment of a line; lineno is 1-based
_match_to_comment(line, lineno) ==
    LET g == line.cmt[1]
    IN  [lineno |-> lineno,
         raw |-> Raw(line),
         kind |-> g.kind,
         version |-> g.version,
         remove |-> g.remove,
         replace |-> g.replace,
         line |-> _match_to_line(g.line),
         lines |-> _match_to_lines(g.lines),
         string |-> g.string,
         regex |-> g.regex,
         pattern1 |-> g.pattern1,
         pattern2 |-> g.pattern2,
         within |-> g.within]

\* list(yield_buffer_comments(file, buffer)): the comments in line order
yield_buffer_comments(buffer, prefix) ==
    LET hits == SelectSeq([i \in 1..Len(buffer) |-> i],
                          LAMBDA i : Matches(buffer[i], prefix))
    IN  [k \in 1..Len(hits) |-> _match_to_comment(buffer[hits[k]], hits[k])]

is_bol(c) == Lower(c.kind) = "bol"

is_eol(c) == Lower(c.kind) = "eol"

is_bump(c) == Lower(c.kind) = "bump"

---------------------------------------------------------------------------
(* YoreComment.fix. *)

\* the truth value of an optional number (None and 0 are false)
TruthyInt(o) == ~IsNone(o) /\ Get(o) # 0

\* the truth value of an optional list or string (None and empty are false)
TruthySeq(o) == ~IsNone(o) /\ Len(Get(o)) > 0

\* whether evaluating the condition of fix() or check() raises KeyError:
\* the properties bol and eol look the version up in python_dates
LookupFails(c) ==
    (is_eol(c) \/ is_bol(c)) /\ c.version \notin DOMAIN python_dates

bol(c) == python_dates[c.version][1]

eol(c) == python_dates[c.version][2]

\* the condition of fix() with the versions compared the other way round
ShouldFixReversed(c, b, ew, bw) ==
    \/ is_eol(c) /\ (\/ TruthyInt(ew) /\ _within(Get(ew), eol(c))
                     \/ _within(ZeroDays, eol(c)))
    \/ is_bol(c) /\ (\/ TruthyInt(bw) /\ _within(Get(bw), bol(c))
                     \/ _within(ZeroDays, bol(c)))
    \/ is_bump(c) /\ TruthySeq(b) /\ VersionGE(c.version, Get(b))

\* the condition of fix(), for a comment whose lookup does not fail
ShouldFix(c, b, ew, bw) ==
    \/ is_eol(c) /\ (\/ TruthyInt(ew) /\ _within(Get(ew), eol(c))
                     \/ _within(ZeroDays, eol(c)))
    \/ is_bol(c) /\ (\/ TruthyInt(bw) /\ _within(Get(bw), bol(c))
                     \/ _within(ZeroDays, bol(c)))
    \/ is_bump(c) /\ TruthySeq(b) /\ VersionGE(Get(b), c.version)

RECURSIVE ReplaceAll(_, _, _)
\* text.replace(p1, p2), p1 not empty; pattern1.sub(p2, text) for a literal p1
ReplaceAll(text, p1, p2) ==
    IF Len(text) < Len(p1) THEN text
    ELSE IF SubSeq(text, 1, Len(p1)) = p1
         THEN p2 \o ReplaceAll(SubSeq(text, Len(p1) + 1, Len(text)), p1, p2)
         ELSE <<text[1]>> \o ReplaceAll(Tail(text), p1, p2)

\* the substitution in one line; the patterns of the model are made of code
\* characters, which the text of a comment does not hold
Substitute(line, p1, p2) ==
    IF IsComment(line) THEN line
    ELSE [line EXCEPT !.txt = ReplaceAll(line.txt, p1, p2)]

Raised(error, buffer) == [result |-> error, buffer |-> buffer, unlink |-> FALSE]

Fixed(buffer, unlink) == [result |-> "True", buffer |-> buffer, unlink |-> unlink]

\* the branch `if self.remove', on the buffer without the comment line
FixRemove(c, buffer, start) ==
    LET range == _scope_range(Get(c.remove), buffer, start)
    IN  IF range = <<>> THEN Raised("IndexError", buffer)
        ELSE Fixed(Splice(buffer, range[1], range[2], <<>>), Get(c.remove) = "file")

\* the line numbers taken as numbers of the buffer, not of the range
ReplacementIndexesAbsolute(c, start) ==
    IF TruthyInt(c.line) THEN Some(<<Get(c.line) - 1>>)
    ELSE IF TruthySeq(c.lines)
         THEN Some([i \in 1..Len(Get(c.lines)) |-> Get(c.lines)[i]])
         ELSE None

\* the 0-based indexes the replacement is read at, None when there is none;
\* start is the start of the resolved range
ReplacementIndexes(c, start) ==
    IF TruthyInt(c.line) THEN Some(<<start + Get(c.line) - 1>>)
    ELSE IF TruthySeq(c.lines)
         THEN Some([i \in 1..Len(Get(c.lines)) |-> start + Get(c.lines)[i]])
         ELSE None

\* the branch `elif self.replace'
FixReplace(c, buffer, start) ==
    LET range == _scope_range(Get(c.replace), buffer, start)
        indexes == IF range = <<>> THEN None ELSE ReplacementIndexes(c, range[1])
    IN  IF range = <<>> THEN Raised("IndexError", buffer)
        ELSE IF IsNone(indexes) /\ ~TruthySeq(c.string)
             THEN Raised("RuntimeError", buffer)
        ELSE IF ~IsNone(indexes)
                /\ \E i \in 1..Len(Get(indexes)) : Get(indexes)[i] >= Len(buffer)
             THEN Raised("IndexError", buffer)
        ELSE IF range[1] >= Len(buffer) THEN Raised("IndexError", buffer)
        ELSE LET replacement ==
                     IF ~IsNone(indexes)
                     THEN [i \in 1..Len(Get(indexes)) |-> buffer[Get(indexes)[i] + 1]]
                     ELSE <<CodeLine(0, Get(c.string), TRUE)>>
             IN  Fixed(Splice(buffer, range[1], range[2],
                              _reindent(replacement, _indent(buffer[range[1] + 1]))),
                       FALSE)

\* the branch `elif self.within'
FixWithin(c, buffer, start) ==
    LET range == _scope_range(Get(c.within), buffer, start)
    IN  IF range = <<>> THEN Raised("IndexError", buffer)
        ELSE IF range[1] >= Len(buffer) THEN Raised("IndexError", buffer)
        ELSE LET block == Slice(buffer, range[1], range[2])
                 replacement == [i \in 1..Len(block) |->
                                    Substitute(block[i], Get(c.pattern1), Get(c.pattern2))]
             IN  IF Len(replacement) = 0 THEN Raised("ValueError", buffer)
                 ELSE Fixed(Splice(buffer, range[1], range[2],
                                   _reindent(replacement, _indent(buffer[range[1] + 1]))),
                            FALSE)

\* the body of `if <condition>:' up to the write: the buffer is edited in place,
\* so an exception leaves it as edited so far
Mutate(c, buffer) ==
    LET start == c.lineno - 1 IN
    IF start >= Len(buffer) THEN Raised("IndexError", buffer)
    ELSE LET rest == Splice(buffer, start, start + 1, <<>>) IN
         IF ~IsNone(c.remove) THEN FixRemove(c, rest, start)
         ELSE IF ~IsNone(c.replace) THEN FixReplace(c, rest, start)
         ELSE IF ~IsNone(c.within) THEN FixWithin(c, rest, start)
         ELSE Fixed(rest, FALSE)

\* read_text().splitlines(keepends=True) of the text of the file
SplitLines(text) == text

RECURSIVE Join(_)
\* "".join(buffer), as the lines that text is made of: a line without
\* terminator runs into the next one (blank, it adds its spaces to it; a
\* comment, it takes the next line as trailing text; code, it takes the next
\* line's text, a comment there being text "#")
Join(buffer) ==
    IF Len(buffer) <= 1 THEN
        IF Len(buffer) = 1 /\ Whitespace(buffer[1]) = 0 /\ ~Strip(buffer[1])
        THEN <<>> ELSE buffer
    ELSE LET first == buffer[1]
             next == buffer[2]
             after == SubSeq(buffer, 3, Len(buffer))
         IN  IF first.nl THEN <<first>> \o Join(Tail(buffer))
             ELSE IF ~Strip(first)
                  THEN Join(<<[next EXCEPT !.ws = first.ws + next.ws]>> \o after)
             ELSE IF IsComment(first)
                  THEN Join(<<[first EXCEPT !.nl = next.nl]>> \o after)
             ELSE Join(<<[first EXCEPT
                            !.txt = first.txt
                                    \o (IF IsComment(next) THEN <<"#">> ELSE next.txt),
                            !.nl = next.nl]>> \o after)

\* what a call of fix() does: its result (True, False or the exception
\* raised), the caller's buffer afterwards, and the file afterwards.
\* `buffer' is the optional argument; d is the file.
fix(c, buffer, d, b, ew, bw) ==
    LET write == IsNone(buffer)
        given == TruthySeq(buffer)
        kept == IF IsNone(buffer) THEN <<>> ELSE Get(buffer)
        out(result, buf, file, wrote, unlinked) ==
            [result |-> result, buffer |-> IF given THEN buf ELSE kept,
             disk |-> file, wrote |-> wrote, unlinked |-> unlinked]
    IN  IF ~given /\ ~d.exists THEN out("FileNotFoundError", kept, d, 0, 0)
        ELSE IF LookupFails(c) THEN out("KeyError", kept, d, 0, 0)
        ELSE IF ~ShouldFix(c, b, ew, bw) THEN out("False", kept, d, 0, 0)
        ELSE LET m == Mutate(c, IF given THEN Get(buffer) ELSE SplitLines(d.text)) IN
             IF m.result # "True" THEN out(m.result, m.buffer, d, 0, 0)
             ELSE IF m.unlink /\ ~d.exists
                  THEN out("FileNotFoundError", m.buffer, d, 0, 0)
             ELSE LET d1 == IF m.unlink THEN [exists |-> FALSE, text |-> <<>>] ELSE d
                      d2 == IF write /\ Len(m.buffer) > 0
                            THEN [exists |-> TRUE, text |-> Join(m.buffer)]
                            ELSE d1
                  IN  out("True", m.buffer, d2,
                          IF write /\ Len(m.buffer) > 0 THEN 1 ELSE 0,
                          IF m.unlink THEN 1 ELSE 0)

---------------------------------------------------------------------------
(* YoreComment.check. *)

\* the level of the record check() logs, "none" when it logs nothing,
\* for a comment whose lookup does not fail
check(c, b, ew, bw) ==
    IF is_eol(c)
    THEN IF TruthyInt(ew) /\ _within(Get(ew), eol(c)) THEN "warning"
         ELSE IF _within(ZeroDays, eol(c)) THEN "error"
         ELSE "none"
    ELSE IF is_bol(c)
    THEN IF TruthyInt(bw) /\ _within(Get(bw), bol(c)) THEN "warning"
         ELSE IF _within(ZeroDays, bol(c)) THEN "error"
         ELSE "none"
    ELSE IF is_bump(c) /\ TruthySeq(b) /\ VersionGE(Get(b), c.version) THEN "error"
    ELSE "none"

RECURSIVE CheckAll(_, _, _, _, _)
\* the loop of CommandCheck.__call__ over the comments of the path: the
\* records logged, and whether a check raised (the loop ends there)
CheckAll(comments, logged, b, ew, bw) ==
    IF Len(comments) = 0 THEN [log |-> logged, raised |-> FALSE]
    ELSE LET c == Head(comments) IN
         IF LookupFails(c) THEN [log |-> logged, raised |-> TRUE]
         ELSE LET level == check(c, b, ew, bw)
              IN  CheckAll(Tail(comments),
                           IF level = "none" THEN logged
                           ELSE Append(logged, [lineno |-> c.lineno, level |-> level]),
                           b, ew, bw)

---------------------------------------------------------------------------
(* The commands. *)

\* file.read_text().splitlines(): the lines without their terminators
SplitLinesBare(text) == [i \in 1..Len(text) |-> [text[i] EXCEPT !.nl = FALSE]]

\* list(yield_file_comments(file))
yield_file_comments(d) ==
    IF d.exists THEN yield_buffer_comments(SplitLinesBare(d.text), DEFAULT_PREFIX)
    ELSE <<>>

\* the comments left in line order
SortedForward(comments) == comments

\* sorted(comments, key=lambda c: c.lineno, reverse=True), the comments
\* being given in line order
SortedReverse(comments) ==
    [k \in 1..Len(comments) |-> comments[Len(comments) + 1 - k]]

\* whether the scan of the buffer returns: _match_to_lines raises ValueError
\* on a list of lines it cannot read
ScanOk(buffer) ==
    \A i \in 1..Len(buffer) :
        Matches(buffer[i], DEFAULT_PREFIX) => LinesOk(buffer[i].cmt[1].lines)

\* no file is written yet
NoFile == pc = "idle" /\ ~disk.exists

\* the file is written with a text, before the commands run
WriteFile(text) ==
    /\ NoFile
    /\ disk' = [exists |-> TRUE, text |-> text]
    /\ UNCHANGED <<bump, eol_within, bol_within, today, pc, lines, todo, count,
                   applied, writes, unlinks, log, call, ret>>

\* `yore fix' with the options --bump, --eol-within and --bol-within;
\* CommandFix._fix, lines 190-192: read the file, collect and sort its comments
FixBegin(b, ew, bw) ==
    /\ pc = "idle"
    /\ disk.exists
    /\ bump' = b
    /\ eol_within' = ew
    /\ bol_within' = bw
    /\ lines' = SplitLines(disk.text)
    /\ count' = 0
    /\ IF ScanOk(SplitLines(disk.text))
       THEN /\ todo' = SortedReverse(yield_buffer_comments(SplitLines(disk.text), DEFAULT_PREFIX))
            /\ pc' = "fixing"
       ELSE /\ todo' = <<>>
            /\ pc' = "raised"
    /\ UNCHANGED <<disk, today, applied, writes, unlinks, log, call, ret>>

\* the record of a call of fix() kept in `applied': its arguments, the file
\* before it, and its outcome
Applied(c, given, d, r) ==
    [comment |-> c, given |-> given, file |-> d, result |-> r.result,
     buffer |-> r.buffer, after |-> r.disk, wrote |-> r.wrote,
     unlinked |-> r.unlinked]

\* CommandFix._fix, lines 192-194: one turn of the loop
FixStep ==
    /\ pc = "fixing"
    /\ Len(todo) > 0
    /\ \E r \in {fix(Head(todo), Some(lines), disk, bump, eol_within, bol_within)} :
           /\ lines' = r.buffer
           /\ disk' = r.disk
           /\ writes' = writes + r.wrote
           /\ unlinks' = unlinks + r.unlinked
           /\ applied' = Append(applied, Applied(Head(todo), Some(lines), disk, r))
           /\ count' = IF r.result = "True" THEN count + 1 ELSE count
           /\ pc' = IF r.result \in {"True", "False"} THEN "fixing" ELSE "raised"
    /\ todo' = Tail(todo)
    /\ UNCHANGED <<bump, eol_within, bol_within, today, log, call, ret>>

\* the write after the loop made whatever the count
FixEndAlways ==
    /\ pc = "fixing"
    /\ Len(todo) = 0
    /\ disk' = [exists |-> TRUE, text |-> Join(lines)]
    /\ writes' = writes + 1
    /\ pc' = "done"
    /\ UNCHANGED <<bump, eol_within, bol_within, today, lines, todo, count,
                   applied, unlinks, log, call, ret>>

\* CommandFix._fix, lines 195-197: the write after the loop
FixEnd ==
    /\ pc = "fixing"
    /\ Len(todo) = 0
    /\ IF count > 0
       THEN /\ disk' = [exists |-> TRUE, text |-> Join(lines)]
            /\ writes' = writes + 1
       ELSE UNCHANGED <<disk, writes>>
    /\ pc' = "done"
    /\ UNCHANGED <<bump, eol_within, bol_within, today, lines, todo, count,
                   applied, unlinks, log, call, ret>>

\* `yore check' with the options --bump, --eol-within and --bol-within;
\* CommandCheck.__call__ on the file
Check(b, ew, bw) ==
    /\ pc = "idle"
    /\ disk.exists
    /\ bump' = b
    /\ eol_within' = ew
    /\ bol_within' = bw
    /\ \E out \in {CheckAll(yield_file_comments(disk), <<>>, b, ew, bw)} :
           /\ log' = out.log
           /\ pc' = IF out.raised THEN "check_raised" ELSE "checked"
    /\ UNCHANGED <<disk, today, lines, todo, count, applied, writes, unlinks,
                   call, ret>>

\* a caller of the library builds the YoreComment of a comment line (of any
\* kind of YoreKind) and calls fix() on it, with the buffer of the file or
\* without a buffer, and with the arguments bump, eol_within and bol_within
CallFix(b, ew, bw) ==
    /\ pc = "idle"
    /\ disk.exists
    /\ bump' = b
    /\ eol_within' = ew
    /\ bol_within' = bw
    /\ \E i \in 1..Len(disk.text), with \in BOOLEAN :
          /\ IsComment(disk.text[i])
          /\ LinesOk(disk.text[i].cmt[1].lines)
          /\ LET c == _match_to_comment(SplitLinesBare(disk.text)[i], i)
                 given == IF with THEN Some(SplitLines(disk.text)) ELSE None
             IN  \E r \in {fix(c, given, disk, b, ew, bw)} :
                     /\ lines' = r.buffer
                     /\ disk' = r.disk
                     /\ writes' = writes + r.wrote
                     /\ unlinks' = unlinks + r.unlinked
                     /\ applied' = Append(applied, Applied(c, given, disk, r))
                     /\ pc' = IF r.result \in {"True", "False"} THEN "called" ELSE "call_raised"
    /\ UNCHANGED <<today, todo, count, log, call, ret>>

\* one command runs on the file, or one call is made, with arguments taken
\* from the sets given
Commands(bumps, withins) ==
    \/ \E b \in bumps, ew \in withins, bw \in withins : FixBegin(b, ew, bw)
    \/ FixStep
    \/ FixEnd
    \/ \E b \in bumps, ew \in withins, bw \in withins : Check(b, ew, bw)
    \/ \E b \in bumps, ew \in withins, bw \in withins : CallFix(b, ew, bw)

---------------------------------------------------------------------------
(* The comments and files the specifications start from. *)

Scopes == {"line", "block", "file"}

\* the groups of a comment before its action is written
Groups(kind, version) ==
    [prefix |-> DEFAULT_PREFIX, kind |-> kind, version |-> version,
     remove |-> None, replace |-> None, line |-> None, lines |-> None,
     string |-> None, regex |-> FALSE, pattern1 |-> None, pattern2 |-> None,
     within |-> None]

\* "remove <scope>"
RemoveG(g, scope) == [g EXCEPT !.remove = Some(scope)]

\* "replace <scope> with line <digits>"
ReplaceLineG(g, scope, digits) ==
    [g EXCEPT !.replace = Some(scope), !.line = Some(digits)]

\* "replace <scope> with lines <list>"
ReplaceLinesG(g, scope, list) ==
    [g EXCEPT !.replace = Some(scope), !.lines = Some(list)]

\* "replace <scope> with `<string>`"
ReplaceStringG(g, scope, string) ==
    [g EXCEPT !.replace = Some(scope), !.string = Some(string)]

\* "[regex-]replace `<pattern1>` with `<pattern2>` within <scope>"
WithinG(g, regex, pattern1, pattern2, scope) ==
    [g EXCEPT !.regex = regex, !.pattern1 = Some(pattern1),
              !.pattern2 = Some(pattern2), !.within = Some(scope)]

NumComments(text) == Cardinality({i \in 1..Len(text) : IsComment(text[i])})

\* the texts of at most MaxLen lines taken from a set, with at most
\* MaxComments comments
Texts(lineSet) ==
    UNION {{t \in [1..n -> lineSet] : NumComments(t) <= MaxComments} : n \in 1..MaxLen}

\* the text with a line put in at index k
Insert(text, k, line) ==
    SubSeq(text, 1, k - 1) \o <<line>> \o SubSeq(text, k, Len(text))

\* no file, no command run yet
Fresh ==
    /\ disk = [exists |-> FALSE, text |-> <<>>]
    /\ bump = None
    /\ eol_within = None
    /\ bol_within = None
    /\ pc = "idle"
    /\ lines = <<>>
    /\ todo = <<>>
    /\ count = 0
    /\ applied = <<>>
    /\ writes = 0
    /\ unlinks = 0
    /\ log = <<>>
    /\ call = None
    /\ ret = None

\* The fix command on files of several comments, under --bump 2.
SessionGroups ==
    LET due == Groups("Bump", <<1>>)
        notDue == Groups("bump", <<3>>)
    IN  {RemoveG(due, s) : s \in Scopes}
            \cup {ReplaceLineG(due, s, <<"1">>) : s \in Scopes}
            \cup {ReplaceStringG(due, "line", <<"b">>)}
            \cup {WithinG(due, FALSE, <<"a">>, <<"b">>, s) : s \in Scopes}
            \cup {RemoveG(notDue, "line")}

SessionLines ==
    {CommentLine(0, g, TRUE) : g \in SessionGroups}
        \cup {CodeLine(ws, <<"a">>, TRUE) : ws \in 0..MaxIndent}
        \cup {CodeLine(0, <<>>, TRUE)}

Init ==
    /\ today = 0
    /\ Fresh

Next ==
    \/ NoFile /\ \E text \in Texts(SessionLines) : WriteFile(text)
    \/ Commands({Some(<<2>>)}, {None})

Spec == Init /\ [][Next]_vars

\* Calls of fix() and the commands on files of one comment, of every kind,
\* under every setting of --bump, --eol-within, --bol-within and today.
TriggerGroups ==
    LET heads == {Groups("Bump", <<1>>), Groups("bump", <<1, 1>>), Groups("BUMP", <<2>>),
                  Groups("EOL", <<3, 8>>), Groups("eol", <<3, 9>>), Groups("BOL", <<3, 8>>)}
    IN  UNION {{RemoveG(g, s) : s \in Scopes}
                   \cup {ReplaceStringG(g, s, <<"b">>) : s \in Scopes}
                   \cup {WithinG(g, TRUE, <<"a">>, <<"b">>, s) : s \in Scopes}
               : g \in heads}

TriggerTexts ==
    {<<CommentLine(0, g, TRUE)>> : g \in TriggerGroups}
        \cup {<<CommentLine(0, g, TRUE), CodeLine(0, <<"a">>, TRUE)>> : g \in TriggerGroups}

\* the next versions: none, or a version
Bumps == {None, Some(<<1>>), Some(<<1, 0>>), Some(<<2>>)}

\* the lead times: none, or a number of days
Withins == {None} \cup {Some(d) : d \in 0..MaxWithin}

InitTrigger ==
    /\ today \in 0..MaxDay
    /\ Fresh

NextTrigger ==
    \/ NoFile /\ \E text \in TriggerTexts : WriteFile(text)
    \/ Commands(Bumps, Withins)

SpecTrigger == InitTrigger /\ [][NextTrigger]_vars

\* Calls of fix() on files of one comment that is due, of every action, with
\* lines of code around it.
Digits == <<"0", "1", "2", "3", "4", "5", "6", "7", "8", "9">>

EditGroups ==
    LET g == Groups("Bump", <<1>>)
    IN  {RemoveG(g, s) : s \in Scopes}
            \cup {ReplaceLineG(g, s, <<Digits[n + 1]>>) : s \in Scopes, n \in 0..MaxLen}
            \cup {ReplaceLinesG(g, s, list) :
                       s \in Scopes, list \in {<<"1">>, <<"2">>, <<"1", "-", "2">>}}
            \cup {ReplaceStringG(g, "line", <<"b">>)}
            \cup {WithinG(g, FALSE, <<"a">>, <<"b">>, s) : s \in Scopes}
            \cup {WithinG(g, TRUE, <<"a">>, <<>>, "line")}

EditComments == {CommentLine(ws, g, TRUE) : ws \in 0..MaxIndent, g \in EditGroups}

EditCode ==
    {CodeLine(ws, <<"a">>, TRUE) : ws \in 0..MaxIndent}
        \cup {CodeLine(0, <<"b">>, TRUE), CodeLine(0, <<>>, TRUE)}

\* the texts of at most MaxLen lines: one comment at line k, and code
NextEdit ==
    \/ NoFile /\ \E n \in 1..MaxLen : \E k \in 1..n :
                    \E c \in EditComments, code \in [1..(n - 1) -> EditCode] :
                        WriteFile(Insert(code, k, c))
    \/ Commands({Some(<<2>>)}, {None})

SpecEdit == Init /\ [][NextEdit]_vars

\* Calls of _block_size on buffers of code and blank lines, with or without
\* line terminators, from every index.
BlockLines(nl) ==
    {CodeLine(ws, txt, nl) : ws \in 0..MaxIndent, txt \in {<<"a">>, <<>>}}

\* the buffers of at most n lines
BlockTexts(n) ==
    UNION {[1..k -> BlockLines(nl)] : k \in 1..n, nl \in BOOLEAN}

\* a caller resolves the size of the block that starts at an index of a buffer
CallBlockSize ==
    /\ pc = "idle"
    /\ \E buffer \in BlockTexts(MaxLen + 2) :
          \E start \in 0..(Len(buffer) - 1) :
              /\ lines' = buffer
              /\ call' = Some([fn |-> "_block_size", start |-> start])
              /\ ret' = Some(_block_size(buffer, start))
    /\ pc' = "returned"
    /\ UNCHANGED <<disk, bump, eol_within, bol_within, today, todo, count,
                   applied, writes, unlinks, log>>

NextBlock == CallBlockSize

SpecBlock == Init /\ [][NextBlock]_vars

\* Calls of _match_to_lines on the texts the group "lines" can hold
\* ([\d, -]+) and on the empty text, as test_match_to_lines calls it.
LineChars == {"0", "1", "2", "3", "-", ",", " "}

\* the texts of at most n characters
LineTexts(n) == UNION {[1..k -> LineChars] : k \in 0..n}

\* the table of test_match_to_lines
LinesTable ==
    <<[lines |-> <<"1">>, expected_lines |-> <<1>>],
      [lines |-> <<"1", " ", "2">>, expected_lines |-> <<1, 2>>],
      [lines |-> <<"1", ",", "2">>, expected_lines |-> <<1, 2>>],
      [lines |-> <<",", ",", " ", ",", "1", ",", ",", " ", ",", ",", ",", ",",
                   " ", " ", "2", " ", ",", ",">>,
       expected_lines |-> <<1, 2>>],
      [lines |-> <<"1", "-", "3">>, expected_lines |-> <<1, 2, 3>>],
      [lines |-> <<"1", "-", "2">>, expected_lines |-> <<1, 2>>],
      [lines |-> <<"1", "-", "1">>, expected_lines |-> <<1>>],
      [lines |-> <<"1", "-", "2", ",", " ", "3", ",", " ", "5", "-", "7">>,
       expected_lines |-> <<1, 2, 3, 5, 6, 7>>]>>

\* a caller expands the text of a list of lines
CallMatchToLines ==
    /\ pc = "idle"
    /\ \E text \in LineTexts(MaxText) \cup {LinesTable[i].lines : i \in 1..Len(LinesTable)} :
          /\ call' = Some([fn |-> "_match_to_lines", lines |-> text])
          /\ IF LinesOk(Some(text))
             THEN /\ ret' = _match_to_lines(Some(text))
                  /\ pc' = "expanded"
             ELSE /\ ret' = None
                  /\ pc' = "expand_raised"
    /\ UNCHANGED <<disk, bump, eol_within, bol_within, today, lines, todo, count,
                   applied, writes, unlinks, log>>

NextLines == CallMatchToLines

SpecLines == Init /\ [][NextLines]_vars

---------------------------------------------------------------------------
(* Properties of the fix command's session (specification Spec). *)

\* the scope a comment names
ScopeOf(c) ==
    IF ~IsNone(c.remove) THEN Get(c.remove)
    ELSE IF ~IsNone(c.replace) THEN Get(c.replace)
    ELSE Get(c.within)

InSession == pc \in {"fixing", "done", "raised"}

\* some call of fix() of the session fixed a "remove file" comment
RemovedFile ==
    \E k \in 1..Len(applied) :
        /\ applied[k].result = "True"
        /\ applied[k].comment.remove = Some("file")

\* C1: once a due "remove file" comment is fixed, the file does not exist:
\* after fix() called without a buffer, and from then on in the session of the
\* fix command, up to and including its end.
C1_RemovedFileIsGone ==
    (RemovedFile /\ (InSession \/ pc = "called")) => ~disk.exists

\* the buffer line at the comment's index is the comment's own line
OwnLine(c) ==
    /\ c.lineno <= Len(lines)
    /\ Raw(lines[c.lineno]) = c.raw

\* C2 as stated: whenever the session is about to apply a comment, the buffer
\* line at index origin_line - 1 is that comment's own line, whatever the
\* actions and scopes of the comments applied before it.
C2_OwnLineAnyScope ==
    (pc = "fixing" /\ Len(todo) > 0) => OwnLine(Head(todo))

\* no comment of scope file has been found due so far in the session
NoFileScopeFired ==
    \A k \in 1..Len(applied) :
        applied[k].result = "False" \/ ScopeOf(applied[k].comment) # "file"

\* C2 amended: whenever the session is about to apply a comment and every
\* comment it found due so far has scope line or block, the buffer line at
\* index origin_line - 1 is that comment's own line.
C2_OwnLineLineOrBlock ==
    (pc = "fixing" /\ Len(todo) > 0 /\ NoFileScopeFired) => OwnLine(Head(todo))

\* a comment of scope block was fixed and shortened the buffer, and a comment
\* above it is about to be applied to its own line
C2_Witness ==
    /\ pc = "fixing"
    /\ Len(todo) > 0
    /\ NoFileScopeFired
    /\ OwnLine(Head(todo))
    /\ \E k \in 1..Len(applied) :
          /\ applied[k].result = "True"
          /\ ScopeOf(applied[k].comment) = "block"
          /\ Len(applied[k].buffer) + 2 <= Len(Get(applied[k].given))

\* the buffer the session read at its start, once a call of fix() was made
FirstBuffer == Get(applied[1].given)

\* C3: the session writes the file at most once, only at its end, after every
\* collected comment was applied in strictly descending line order, and it
\* does so exactly when some call of fix() returned True; a session in which
\* a call raised writes nothing and leaves the text of the file as it was.
C3_WriteOnceAtEnd ==
    InSession =>
        /\ writes <= 1
        /\ writes = 1 => (pc = "done" /\ Len(todo) = 0 /\ count >= 1)
        /\ \A k \in 1..(Len(applied) - 1) :
              applied[k].comment.lineno > applied[k + 1].comment.lineno
        /\ pc = "done" =>
              /\ (writes = 1) <=> (\E k \in 1..Len(applied) : applied[k].result = "True")
              /\ Len(applied) > 0 =>
                    Len(applied) = Len(yield_buffer_comments(FirstBuffer, DEFAULT_PREFIX))
        /\ pc = "raised" =>
              /\ writes = 0
              /\ (disk.exists /\ Len(applied) > 0) => disk.text = FirstBuffer

\* a finished session of two comments, one fixed and one not due, and one write
C3_Witness ==
    /\ pc = "done"
    /\ writes = 1
    /\ Len(applied) = 2
    /\ count = 1
    /\ disk.text # FirstBuffer

---------------------------------------------------------------------------
(* Properties of the trigger condition (specification SpecTrigger). *)

\* a lead time not supplied counts as no day
Lead(within) == IF IsNone(within) THEN 0 ELSE Get(within)

\* the trigger condition of a comment, as the specification states it
Due(c) ==
    CASE is_bump(c) -> ~IsNone(bump) /\ TupleGE(StripZeros(Get(bump)), StripZeros(c.version))
      [] is_eol(c) -> today >= python_dates[c.version][2] - Lead(eol_within)
      [] is_bol(c) -> today >= python_dates[c.version][1] - Lead(bol_within)
      [] OTHER -> FALSE

\* the call was made on the text the comment was read from: the buffer given
\* holds the comment at its line, or no buffer was given and the file does
HoldsComment(e) ==
    LET buffer == IF IsNone(e.given) THEN e.file.text ELSE Get(e.given)
    IN  /\ IsNone(e.given) => e.file.exists
        /\ e.comment.lineno <= Len(buffer)
        /\ Raw(buffer[e.comment.lineno]) = e.comment.raw

\* C4: a call of fix() on a comment whose trigger condition does not hold
\* returns False, leaves the buffer as it was given (the comment line
\* included), and neither writes nor deletes the file; for every kind, action
\* and scope.
C4_NotDueNoEffect ==
    \A k \in 1..Len(applied) :
        LET e == applied[k] IN
        (HoldsComment(e) /\ ~LookupFails(e.comment) /\ ~Due(e.comment)) =>
            /\ e.result = "False"
            /\ ~IsNone(e.given) => e.buffer = Get(e.given)
            /\ e.after = e.file
            /\ e.wrote = 0
            /\ e.unlinked = 0

\* a call of fix() with a buffer on an eol comment that is not due, a lead
\* time being supplied
C4_Witness ==
    \E k \in 1..Len(applied) :
        LET e == applied[k] IN
        /\ HoldsComment(e)
        /\ ~IsNone(e.given)
        /\ is_eol(e.comment)
        /\ ~LookupFails(e.comment)
        /\ ~Due(e.comment)
        /\ ~IsNone(eol_within)
        /\ e.result = "False"

\* C5: fix() fires, that is deletes the comment line from the buffer and
\* returns True, exactly when the trigger condition of the comment's kind
\* holds; bump: a next version is supplied and is >= the comment's version;
\* eol and bol: today >= the date minus the lead time, no lead time counting
\* as zero.
C5_FiresIffDue ==
    \A k \in 1..Len(applied) :
        LET e == applied[k] IN
        (HoldsComment(e) /\ ~LookupFails(e.comment)) =>
            /\ (e.result = "True") <=> Due(e.comment)
            /\ (e.result = "True" /\ ~IsNone(e.given)) =>
                  /\ Len(e.buffer) < Len(Get(e.given))
                  /\ \A i \in 1..Len(e.buffer) : Raw(e.buffer[i]) # e.comment.raw

\* fix() was called on a comment whose trigger condition holds and did not
\* return True: the edit that follows the deletion of the comment line raised
C5_Witness ==
    \E k \in 1..Len(applied) :
        LET e == applied[k] IN
        /\ HoldsComment(e)
        /\ ~LookupFails(e.comment)
        /\ Due(e.comment)
        /\ e.result \in {"IndexError", "ValueError", "RuntimeError"}

\* The trigger condition alone: fix() returns False exactly when the
\* condition does not hold, and when it holds the comment line is deleted
\* from the buffer, and True is returned unless the edit that follows raised.
TriggerDecides ==
    \A k \in 1..Len(applied) :
        LET e == applied[k] IN
        (HoldsComment(e) /\ ~LookupFails(e.comment)) =>
            /\ (e.result = "False") <=> ~Due(e.comment)
            /\ (Due(e.comment) /\ ~IsNone(e.given)) =>
                  /\ Len(e.buffer) < Len(Get(e.given))
                  /\ \A i \in 1..Len(e.buffer) : Raw(e.buffer[i]) # e.comment.raw
            /\ (Due(e.comment) /\ e.result \notin {"IndexError", "ValueError", "RuntimeError"}) =>
                  e.result = "True"

\* a line the grammar of the specification accepts: a comment with the
\* prefix and one of the three kinds, in any case
GrammarLine(line) ==
    /\ IsComment(line)
    /\ line.cmt[1].prefix = DEFAULT_PREFIX
    /\ Lower(line.cmt[1].kind) \in YoreKind

\* C9: the scan of a buffer yields a comment for every line of the grammar,
\* of any of the three kinds, with the kind as written and the 1-based index
\* of the line.
C9_ScanFindsEveryKind ==
    (pc = "fixing" /\ Len(applied) = 0) =>
        \A i \in 1..Len(lines) :
            GrammarLine(lines[i]) =>
                \E k \in 1..Len(todo) :
                    /\ todo[k].lineno = i
                    /\ todo[k].kind = lines[i].cmt[1].kind

\* the condition of a comment is already true: the date is reached, or the
\* version is
Reached(c) ==
    CASE is_bump(c) -> ~IsNone(bump) /\ TupleGE(StripZeros(Get(bump)), StripZeros(c.version))
      [] is_eol(c) -> today >= python_dates[c.version][2]
      [] is_bol(c) -> today >= python_dates[c.version][1]
      [] OTHER -> FALSE

\* the records logged for the comment of a line
Reports(lineno) == SelectSeq(log, LAMBDA r : r.lineno = lineno)

\* C10: the check command logs at most one record per comment: an error when
\* the condition is already true, a warning when it is not but today is
\* within the lead time of the date, nothing otherwise.
C10_LevelFollowsCondition ==
    pc = "checked" =>
        \A k \in 1..Len(yield_file_comments(disk)) :
            LET c == yield_file_comments(disk)[k]
                levels == [i \in 1..Len(Reports(c.lineno)) |-> Reports(c.lineno)[i].level]
            IN  levels = IF Reached(c) THEN <<"error">>
                         ELSE IF Due(c) THEN <<"warning">>
                         ELSE <<>>

---------------------------------------------------------------------------
(* Properties of the edits (specification SpecEdit). *)

\* a call of fix() with a buffer that holds the comment, the comment being due
DueCall(e) ==
    /\ ~IsNone(e.given)
    /\ HoldsComment(e)
    /\ ~LookupFails(e.comment)
    /\ Due(e.comment)

\* C6: fix() on a due "remove line" comment at line k of a buffer of n lines,
\* k < n, returns True and leaves the lines 1..k-1 followed by the lines
\* k+2..n of the buffer, unchanged and in order.
C6_RemoveLine ==
    \A j \in 1..Len(applied) :
        LET e == applied[j]
            k == e.comment.lineno
            given == Get(e.given)
        IN  (DueCall(e) /\ e.comment.remove = Some("line") /\ k < Len(given)) =>
                /\ e.result = "True"
                /\ Len(e.buffer) = Len(given) - 2
                /\ e.buffer = SubSeq(given, 1, k - 1) \o SubSeq(given, k + 2, Len(given))

\* a "remove line" comment fixed between a line kept above it and the line
\* removed with it
C6_Witness ==
    \E j \in 1..Len(applied) :
        /\ DueCall(applied[j])
        /\ applied[j].comment.remove = Some("line")
        /\ applied[j].comment.lineno = 2
        /\ Len(Get(applied[j].given)) = 3
        /\ Len(applied[j].buffer) = 1

\* the leading whitespace of a line that is not blank
Indentation(line) == line.ws

Blank(line) == ~IsComment(line) /\ Len(line.txt) = 0

\* the line is the other one with its leading whitespace replaced by n
\* spaces; the line terminators are not compared
Reindented(line, other, n) ==
    /\ line.ws = n
    /\ line.txt = other.txt
    /\ line.cmt = other.cmt

WithoutComment(e) ==
    LET given == Get(e.given)
        k == e.comment.lineno
    IN  SubSeq(given, 1, k - 1) \o SubSeq(given, k + 1, Len(given))

\* the range <<start, end>> an edit that returned resolved, 0-based
ResolvedRange(e) ==
    _scope_range(ScopeOf(e.comment), WithoutComment(e), e.comment.lineno - 1)

\* the lines of the resolved range
ScopeLines(e) ==
    Slice(WithoutComment(e), ResolvedRange(e)[1], ResolvedRange(e)[2])

\* the replacement lines of a replace or substitute edit that returned,
\* before they are re-indented
ReplacementLines(e) ==
    LET c == e.comment
        rest == WithoutComment(e)
        indexes == ReplacementIndexes(c, ResolvedRange(e)[1])
    IN  IF ~IsNone(c.within)
        THEN [i \in 1..Len(ScopeLines(e)) |->
                 Substitute(ScopeLines(e)[i], Get(c.pattern1), Get(c.pattern2))]
        ELSE IF ~IsNone(indexes)
             THEN [i \in 1..Len(Get(indexes)) |-> rest[Get(indexes)[i] + 1]]
             ELSE <<CodeLine(0, Get(c.string), TRUE)>>

\* C12: a replace or substitute edit that returns leaves, in place of the
\* resolved range, as many lines as the replacement has, each with the text
\* and the line terminator of its replacement line, the lines that are not
\* blank indented relative to each other as the replacement lines are; and a
\* substitution whose pattern occurs nowhere in the scope leaves the buffer
\* as it was without the comment.
C12_ReindentKeepsLines ==
    \A j \in 1..Len(applied) :
        LET e == applied[j]
            start == ResolvedRange(e)[1]
            src == ReplacementLines(e)
        IN  (DueCall(e) /\ e.result = "True" /\ IsNone(e.comment.remove)) =>
                /\ Len(e.buffer) = Len(WithoutComment(e)) - Len(ScopeLines(e)) + Len(src)
                /\ \A i \in 1..Len(src) :
                       /\ e.buffer[start + i].txt = src[i].txt
                       /\ e.buffer[start + i].cmt = src[i].cmt
                       /\ e.buffer[start + i].nl = src[i].nl
                /\ \A i \in 1..Len(src), i2 \in 1..Len(src) :
                       (~Blank(src[i]) /\ ~Blank(src[i2])) =>
                           e.buffer[start + i].ws - e.buffer[start + i2].ws
                               = src[i].ws - src[i2].ws
                /\ (~IsNone(e.comment.within) /\ src = ScopeLines(e)) =>
                       e.buffer = WithoutComment(e)

\* a substitution within the file " a", "": the blank line is left as a
\* space without its line terminator
C12_Witness ==
    \E j \in 1..Len(applied) :
        LET e == applied[j] IN
        /\ DueCall(e)
        /\ e.comment.within = Some("file")
        /\ e.comment.lineno = 1
        /\ e.result = "True"
        /\ Len(Get(e.given)) = 3
        /\ Get(e.given)[2] = CodeLine(1, <<"a">>, TRUE)
        /\ Get(e.given)[3] = CodeLine(0, <<>>, TRUE)
        /\ e.buffer = <<CodeLine(1, <<"b">>, TRUE), CodeLine(1, <<>>, FALSE)>>

\* C13: fix() on a buffer and a comment the scan of that buffer yields, the
\* comment being due, returns True: it raises neither the RuntimeError "No
\* replacement specified" nor an IndexError, wherever the comment stands and
\* whatever its action and scope.
C13_FixReturnsTrue ==
    \A j \in 1..Len(applied) :
        LET e == applied[j] IN
        (/\ DueCall(e)
         /\ Matches(Get(e.given)[e.comment.lineno], DEFAULT_PREFIX)) =>
            e.result = "True"

\* "replace line with line 0" above a line of code: no replacement is found
C13_Witness ==
    \E j \in 1..Len(applied) :
        LET e == applied[j] IN
        /\ DueCall(e)
        /\ Matches(Get(e.given)[e.comment.lineno], DEFAULT_PREFIX)
        /\ e.comment.replace = Some("line")
        /\ e.comment.line = Some(0)
        /\ e.comment.lineno < Len(Get(e.given))
        /\ e.result = "RuntimeError"

\* the comment with "with lines N" written "with line N"
WithLine(c, n) == [c EXCEPT !.line = Some(n), !.lines = None]

\* C14: the numbers of "replace <scope> with lines ..." count the lines of
\* the resolved scope from 1, as the number of "with line N" does: fix() on
\* a due "with lines N" comment, N >= 1, ends as fix() on the same buffer
\* with the comment read as "with line N" does, with the same buffer; and
\* when every number of the list is at least 1 and names a line of the
\* buffer counted from the start of the scope, fix() returns True and leaves,
\* in place of the scope, the lines so numbered, in the order of the list.
C14_LinesNumberedAsLine ==
    \A j \in 1..Len(applied) :
        LET e == applied[j]
            c == e.comment
            list == Get(c.lines)
            rest == WithoutComment(e)
            start == ResolvedRange(e)[1]
            other == fix(WithLine(c, list[1]), e.given, e.file,
                         bump, eol_within, bol_within)
        IN  (DueCall(e) /\ ~IsNone(c.replace) /\ TruthySeq(c.lines)) =>
                /\ (Len(list) = 1 /\ list[1] >= 1) =>
                       /\ e.result = other.result
                       /\ e.buffer = other.buffer
                /\ (/\ ResolvedRange(e) # <<>>
                    /\ \A i \in 1..Len(list) :
                           list[i] >= 1 /\ start + list[i] <= Len(rest)) =>
                       /\ e.result = "True"
                       /\ Len(e.buffer) = Len(rest) - Len(ScopeLines(e)) + Len(list)
                       /\ \A i \in 1..Len(list) :
                              /\ e.buffer[start + i].txt = rest[start + list[i]].txt
                              /\ e.buffer[start + i].cmt = rest[start + list[i]].cmt

\* "replace line with lines 1" above the lines "a", "b": the line "a" is
\* replaced by "b", the second line of the scope's start, not by itself
C14_Witness ==
    \E j \in 1..Len(applied) :
        LET e == applied[j] IN
        /\ DueCall(e)
        /\ e.comment.replace = Some("line")
        /\ e.comment.lines = Some(<<1>>)
        /\ e.comment.lineno = 1
        /\ e.result = "True"
        /\ Get(e.given)[2] = CodeLine(0, <<"a">>, TRUE)
        /\ Get(e.given)[3] = CodeLine(0, <<"b">>, TRUE)
        /\ e.buffer = <<CodeLine(0, <<"b">>, TRUE), CodeLine(0, <<"b">>, TRUE)>>

---------------------------------------------------------------------------
(* Properties of the block size (specification SpecBlock). *)

\* the 0-based index the walk from start stops at: the first line that is not
\* blank and is indented less than buffer[start], or as much with a blank
\* line right before it, or the end of the buffer
WalkStop(buffer, start) ==
    LET ref == IF Blank(buffer[start + 1]) THEN Whitespace(buffer[start + 1])
               ELSE Indentation(buffer[start + 1])
        stops == {i \in start..(Len(buffer) - 1) :
                     /\ ~Blank(buffer[i + 1])
                     /\ \/ Indentation(buffer[i + 1]) < ref
                        \/ /\ Indentation(buffer[i + 1]) = ref
                           /\ i > start
                           /\ Blank(buffer[i])}
    IN  Min(stops \cup {Len(buffer)})

\* the number of blank lines pending at index stop: those right before it
PendingBlank(buffer, start, stop) ==
    LET first == Min({i \in start..stop : \A j \in i..(stop - 1) : Blank(buffer[j + 1])})
    IN  stop - first

\* the lines "a", " b", "", " d", "e" of the table of test_block_size
TestLine(text) ==
    CASE text = "" -> CodeLine(0, <<>>, FALSE)
      [] text \in {"a", "b", "c", "d", "e"} -> CodeLine(0, <<"a">>, FALSE)
      [] text \in {" a", " b", " d"} -> CodeLine(1, <<"a">>, FALSE)

TestBlock(texts) == [i \in 1..Len(texts) |-> TestLine(texts[i])]

\* the table of test_block_size
TestTable ==
    <<[block |-> TestBlock(<<"a", "b", "c">>), expected_size |-> 3],
      [block |-> TestBlock(<<"a", " b", "c">>), expected_size |-> 3],
      [block |-> TestBlock(<<" a", " b", "c">>), expected_size |-> 2],
      [block |-> TestBlock(<<"a", "", "c">>), expected_size |-> 1],
      [block |-> TestBlock(<<"a", " b", "", "d">>), expected_size |-> 2],
      [block |-> TestBlock(<<"a", " b", "", " d">>), expected_size |-> 4],
      [block |-> TestBlock(<<"a", " b", "", " d", "e">>), expected_size |-> 5]>>

\* C8: _block_size(buffer, start) is the number of lines walked from start to
\* the stop of the walk less the blank lines pending there; so a block does
\* not end on a blank line, lines that are not blank, equally indented and up
\* to the end of the buffer are all in the block, and the sizes of the table
\* of test_block_size hold.
C8_BlockSize ==
    pc = "returned" =>
        LET start == Get(call).start
            size == Get(ret)
            stop == WalkStop(lines, start)
        IN  /\ size = stop - start - PendingBlank(lines, start, stop)
            /\ size >= 0
            /\ size > 0 => ~Blank(lines[start + size])
            /\ (\A i \in (start + 1)..Len(lines) :
                   ~Blank(lines[i]) /\ Indentation(lines[i]) = Indentation(lines[start + 1]))
                   => size = Len(lines) - start
            /\ \A i \in 1..Len(TestTable) :
                   (start = 0 /\ lines = TestTable[i].block)
                       => size = TestTable[i].expected_size

\* a block that goes on over a blank line followed by deeper lines and stops
\* short of the blank line before a line at its own indentation
C8_Witness ==
    /\ pc = "returned"
    /\ Len(lines) = 5
    /\ Get(call).start = 0
    /\ Get(ret) = 3
    /\ Blank(lines[2])
    /\ Blank(lines[4])
    /\ ~Blank(lines[5])

---------------------------------------------------------------------------
(* Properties of the lists of lines (specification SpecLines). *)

IsSeparator(ch) == ch \in {",", " "}

\* the index a token starts at: a character that is no separator, first of
\* the text or right after a separator
TokenStarts(text) ==
    {i \in 1..Len(text) :
        /\ ~IsSeparator(text[i])
        /\ IF i = 1 THEN TRUE ELSE IsSeparator(text[i - 1])}

\* the token that starts at index i, up to the next separator
TokenAt(text, i) ==
    LET last == Min({j \in i..Len(text) :
                        IF j = Len(text) THEN TRUE ELSE IsSeparator(text[j + 1])})
    IN  SubSeq(text, i, last)

IsNumber(token) ==
    /\ Len(token) > 0
    /\ \A k \in 1..Len(token) : token[k] \in {"0", "1", "2", "3", "4", "5", "6", "7", "8", "9"}

\* the indexes of the dashes of a token
Dashes(token) == {k \in 1..Len(token) : token[k] = "-"}

\* a number, or a range a-b of two numbers
IsToken(token) ==
    \/ IsNumber(token)
    \/ \E k \in Dashes(token) :
           /\ IsNumber(SubSeq(token, 1, k - 1))
           /\ IsNumber(SubSeq(token, k + 1, Len(token)))

\* a text made of numbers and ranges between runs of separators
IsLineList(text) ==
    /\ TokenStarts(text) # {}
    /\ \A i \in TokenStarts(text) : IsToken(TokenAt(text, i))

RECURSIVE Decimal(_, _)
\* the number written in decimal, read from the left
Decimal(token, acc) ==
    IF Len(token) = 0 THEN acc
    ELSE Decimal(Tail(token),
                 10 * acc + (CHOOSE d \in 0..9 : Digits[d + 1] = Head(token)))

\* a, a + 1, ..., b
FromTo(a, b) == [i \in 1..(b - a + 1) |-> a + (i - 1)]

\* the numbers a token stands for
Enumerate(token) ==
    IF IsNumber(token) THEN <<Decimal(token, 0)>>
    ELSE LET k == CHOOSE d \in Dashes(token) : TRUE
         IN  FromTo(Decimal(SubSeq(token, 1, k - 1), 0),
                    Decimal(SubSeq(token, k + 1, Len(token)), 0))

RECURSIVE EnumerateFrom(_, _)
\* the numbers of the tokens that start at index i or after, left to right
EnumerateFrom(text, i) ==
    IF i > Len(text) THEN <<>>
    ELSE IF i \in TokenStarts(text)
         THEN Enumerate(TokenAt(text, i))
                  \o EnumerateFrom(text, i + Len(TokenAt(text, i)))
         ELSE EnumerateFrom(text, i + 1)

\* C11: _match_to_lines on a text made of numbers and ranges a-b between
\* runs of commas and spaces, leading and trailing ones included, returns the
\* numbers of the tokens from left to right, a range a-b standing for
\* a, a + 1, ..., b: the order of the text is kept, and so are the numbers
\* that come twice; the lists of the table of test_match_to_lines are returned.
C11_LinesExpanded ==
    pc \in {"expanded", "expand_raised"} =>
        LET text == Get(call).lines IN
        /\ IsLineList(text) =>
               /\ pc = "expanded"
               /\ ret = Some(EnumerateFrom(text, 1))
        /\ \A i \in 1..Len(LinesTable) :
               text = LinesTable[i].lines =>
                   /\ pc = "expanded"
                   /\ ret = Some(LinesTable[i].expected_lines)

\* "2,1-2" expands to 2, 1, 2: the order of the text, the 2 twice
C11_Witness ==
    /\ pc = "expanded"
    /\ Get(call).lines = <<"2", ",", "1", "-", "2">>
    /\ ret = Some(<<2, 1, 2>>)

===========================================================================
